---- MODULE Spec2Model ----
(***************************************************************************)
(* Team-formation scheduler of src/utils/schedular.js (the second,         *)
(* transactional definition, lines 108-306): the cron callback of          *)
(* startScheduler and createTeamsForHackathon, over a MongoDB store with   *)
(* multi-document transactions (snapshot isolation, first writer wins).    *)
(*                                                                         *)
(* One tick is one invocation of the cron callback.  node-cron does not    *)
(* wait for a running callback, so invocations may overlap; every await of *)
(* the code is a point where another invocation may run.                   *)
(*                                                                         *)
(* The client registry and the heartbeat of the WebSocket service of       *)
(* src/unnamed/part_001 are a second state machine over their own          *)
(* variables (SpecWs), and the message routes of src/unnamed/part_000 a    *)
(* third (SpecMsg).                                                        *)
(***************************************************************************)
EXTENDS Integers, Sequences, FiniteSets, TLC

\* ---- bounds of the model ----
NumHackathons == 2
NumTicks == 2
MaxParticipants == 2
MaxSiblingParticipants == 1
MaxSingleParticipants == 5
MaxTeamSize == 2
MaxProblems == 1
NumWsUsers == 1
NumSockets == 2
NumChatUsers == 3
NumChatTeams == 1
NumMessages == 1

\* ---- program constants ----
\* now.getTime() - 60000; the cron pattern "* * * * *" fires every 60000 ms
Interval == 60000

Min(a, b) == IF a < b THEN a ELSE b
Max(a, b) == IF a > b THEN a ELSE b

Hackathons == 1..NumHackathons
Ticks == 1..NumTicks
\* the chunking loop is unbounded when maxTeamSize <= 0: the model stops it
\* after MaxIter iterations (one more than any terminating run needs)
MaxIter == Max(MaxParticipants, MaxSingleParticipants) + 1
\* registration deadlines: in the window of the first tick only (the first tick
\* is at Interval), and on the bound the windows of the first two ticks share
Deadlines == {Interval - 1, Interval}
\* and, for a single hackathon, a deadline the first tick has not reached
SingleDeadlines == Deadlines \cup {Interval + 1}
TeamSizes == (0 - 1)..MaxTeamSize
\* the users of the WebSocket service and the connections made to it
WsUsers == 1..NumWsUsers
Sockets == 1..NumSockets
\* the users and the teams of the message routes
ChatUsers == 1..NumChatUsers
ChatTeams == 1..NumChatTeams

VARIABLES
    \* Hackathon documents (fields the scheduler only reads)
    participants,          \* h -> number of participants; they are users 1..n
    maxTeamSize,           \* h -> integer (the schema does not constrain it here)
    problemStatements,     \* h -> number of problem statements
    registrationDeadline,  \* h -> instant (ms)
    isActive,              \* h -> BOOLEAN
    \* Hackathon documents (fields the scheduler writes) and the collections
    status,                \* h -> "registration_open" | "registration_closed"
    teamsFormed,           \* h -> BOOLEAN
    version,               \* h -> number of committed writes to the document
    teams,                 \* committed Team documents
    members,               \* committed TeamMember documents
    \* the clock and the cron callbacks
    now,                   \* instant of the latest tick
    pc,                    \* t -> position of the callback invocation t
    hackathons,            \* t -> hackathons of the for loop not yet finished
    \* locals of createTeamsForHackathon of invocation t
    shuffledParticipants,  \* t -> sequence of users
    i,                     \* t -> loop index of the chunking loop
    createdTeams,          \* t -> sequence of populated teams
    emailPromises,         \* t -> set of started notification sends
    \* the session of invocation t
    txnState,              \* t -> "none" | "active" | "committed"
    txnSnapshot,           \* t -> version of the hackathon seen by the snapshot, -1 before
    txnTeams,              \* t -> Team documents written in the transaction
    txnMembers,            \* t -> TeamMember documents written in the transaction
    txnUpdate,             \* t -> BOOLEAN: the hackathon update is written
    \* the real-time bus
    emitted,               \* set of 'teams-formed' events handed to io
    \* the console
    errorLog               \* set of errors written by console.error

docVars == <<participants, maxTeamSize, problemStatements, registrationDeadline, isActive>>
storeVars == <<status, teamsFormed, version, teams, members>>
localVars == <<shuffledParticipants, i, createdTeams, emailPromises>>
txnVars == <<txnState, txnSnapshot, txnTeams, txnMembers, txnUpdate>>
schedVars == <<docVars, storeVars, now, pc, hackathons, localVars, txnVars, emitted, errorLog>>

VARIABLES
    \* the WebSocket service
    clients,               \* u -> the socket registered for user u, 0 for no entry
    \* the sockets, numbered in the order of their connection
    readyState,            \* s -> "none" (not connected yet) | "OPEN" | "CLOSING" | "CLOSED"
    userId,                \* s -> the user its handlers were set up for, 0 before
    isAlive,               \* s -> the isAlive property of the socket
    ping,                  \* s -> "none" | "sent" | "answered": the last ping sent on s
    terminated             \* sockets the heartbeat has terminated

wsVars == <<clients, readyState, userId, isAlive, ping, terminated>>

VARIABLES
    \* the team chat
    chatTeams,             \* team -> [members, chatEnabled] of the Team document
    messages,              \* the stored Message documents
    created,               \* number of messages created so far
    broadcasts,            \* the events handed to broadcastToTeam
    response               \* the last response a route has sent

chatVars == <<chatTeams, messages, created, broadcasts, response>>
vars == <<schedVars, wsVars, chatVars>>

\* ---- pure helpers ----


\* Array.prototype.slice(start, end) on a sequence (0-based, negative = from the end)
RelIndex(x, len) == IF x < 0 THEN Max(len + x, 0) ELSE Min(x, len)
\* a mutant of JsSlice: the end index is taken as inclusive
JsSliceInclusive(s, start, end) ==
    LET from == RelIndex(start, Len(s))
        to == RelIndex(end + 1, Len(s))
    IN IF from < to THEN SubSeq(s, from + 1, to) ELSE << >>

JsSlice(s, start, end) ==
    LET from == RelIndex(start, Len(s))
        to == RelIndex(end, Len(s))
    IN IF from < to THEN SubSeq(s, from + 1, to) ELSE << >>

\* [a[x], a[y]] = [a[y], a[x]] with 0-based x, y
Swap(s, x, y) == [k \in 1..Len(s) |->
                    IF k = x + 1 THEN s[y + 1] ELSE IF k = y + 1 THEN s[x + 1] ELSE s[k]]

\* the Fisher-Yates loop from index k down to 1; js[k] is the draw
\* Math.floor(Math.random() * (k + 1)) of iteration k
RECURSIVE FisherYates(_, _, _)
FisherYates(s, k, js) ==
    IF k > 0 THEN FisherYates(Swap(s, k, js[k]), k - 1, js) ELSE s

\* the draws of one shuffle of n elements
Draws(n) == {js \in [1..(n - 1) -> 0..(n - 1)] : \A k \in 1..(n - 1) : js[k] <= k}

\* ---- the selection query ----

\* a mutant of Eligible: the query without its status condition
EligibleIgnoringStatus(h, at) ==
    /\ registrationDeadline[h] <= at
    /\ registrationDeadline[h] >= at - Interval
    /\ isActive[h]
    /\ participants[h] >= 1

\* the filter of Hackathon.find({...}) of the cron callback
Eligible(h, at) ==
    /\ registrationDeadline[h] <= at
    /\ registrationDeadline[h] >= at - Interval
    /\ isActive[h]
    /\ status[h] = "registration_open"
    /\ participants[h] >= 1

\* the result array, in document order
RECURSIVE Find(_, _)
Find(h, at) ==
    IF h > NumHackathons THEN << >>
    ELSE (IF Eligible(h, at) THEN <<h>> ELSE << >>) \o Find(h + 1, at)

\* ---- initial state ----

\* the clients map, the sockets and the heartbeat are as the service has just
\* been initialized: no connection yet
InitWebSocketService ==
    /\ clients = [u \in WsUsers |-> 0]
    /\ readyState = [s \in Sockets |-> "none"]
    /\ userId = [s \in Sockets |-> 0]
    /\ isAlive = [s \in Sockets |-> FALSE]
    /\ ping = [s \in Sockets |-> "none"]
    /\ terminated = {}

\* no team has a member and no message was sent
InitChat ==
    /\ chatTeams = [tm \in ChatTeams |-> [members |-> {}, chatEnabled |-> TRUE]]
    /\ messages = {}
    /\ created = 0
    /\ broadcasts = {}
    /\ response = [route |-> "none", user |-> 0, messageId |-> 0, status |-> 0]

\* nothing has run: every hackathon is open, the collections are empty
InitScheduler ==
    /\ status = [h \in Hackathons |-> "registration_open"]
    /\ teamsFormed = [h \in Hackathons |-> FALSE]
    /\ version = [h \in Hackathons |-> 0]
    /\ teams = {}
    /\ members = {}
    /\ now = 0
    /\ pc = [t \in Ticks |-> "idle"]
    /\ hackathons = [t \in Ticks |-> << >>]
    /\ shuffledParticipants = [t \in Ticks |-> << >>]
    /\ i = [t \in Ticks |-> 0]
    /\ createdTeams = [t \in Ticks |-> << >>]
    /\ emailPromises = [t \in Ticks |-> {}]
    /\ txnState = [t \in Ticks |-> "none"]
    /\ txnSnapshot = [t \in Ticks |-> 0 - 1]
    /\ txnTeams = [t \in Ticks |-> {}]
    /\ txnMembers = [t \in Ticks |-> {}]
    /\ txnUpdate = [t \in Ticks |-> FALSE]
    /\ emitted = {}
    /\ errorLog = {}
    /\ InitWebSocketService

\* several hackathons, few participants each (the hackathons after the first
\* fewer still)
Init ==
    /\ participants \in {f \in [Hackathons -> 0..MaxParticipants] :
           \A h \in Hackathons : h > 1 => f[h] <= MaxSiblingParticipants}
    /\ maxTeamSize \in [Hackathons -> TeamSizes]
    /\ problemStatements \in [Hackathons -> 0..MaxProblems]
    /\ registrationDeadline \in [Hackathons -> Deadlines]
    /\ isActive \in [Hackathons -> BOOLEAN]
    /\ InitScheduler
    /\ InitChat

\* one hackathon with participants, more of them, with at most one problem
\* statement; with more than MaxParticipants of them its deadline is in the
\* window of the first tick only
InitSingle ==
    /\ participants \in {f \in [Hackathons -> 0..MaxSingleParticipants] :
           f[1] >= 1 /\ \A h \in Hackathons : h > 1 => f[h] = 0}
    /\ maxTeamSize \in {f \in [Hackathons -> TeamSizes] :
           \A h \in Hackathons : h > 1 => f[h] = 1}
    /\ problemStatements \in {f \in [Hackathons -> 0..1] :
           \A h \in Hackathons : h > 1 => f[h] = 0}
    /\ registrationDeadline \in {f \in [Hackathons -> SingleDeadlines] :
           /\ \A h \in Hackathons : h > 1 => f[h] = Interval - 1
           /\ participants[1] > MaxParticipants => f[1] = Interval - 1}
    /\ isActive \in {f \in [Hackathons -> BOOLEAN] :
           \A h \in Hackathons : h > 1 => f[h]}
    /\ InitScheduler
    /\ InitChat

\* ---- the cron callback ----

\* the state of a finished call of createTeamsForHackathon: its locals and its
\* session are gone
ResetLocals(t) ==
    /\ shuffledParticipants' = [shuffledParticipants EXCEPT ![t] = << >>]
    /\ i' = [i EXCEPT ![t] = 0]
    /\ createdTeams' = [createdTeams EXCEPT ![t] = << >>]
    /\ emailPromises' = [emailPromises EXCEPT ![t] = {}]
    /\ txnState' = [txnState EXCEPT ![t] = "none"]
    /\ txnSnapshot' = [txnSnapshot EXCEPT ![t] = 0 - 1]
    /\ txnTeams' = [txnTeams EXCEPT ![t] = {}]
    /\ txnMembers' = [txnMembers EXCEPT ![t] = {}]
    /\ txnUpdate' = [txnUpdate EXCEPT ![t] = FALSE]

\* console.error("Scheduler error:", error) of invocation t
SchedulerError(t) == [tick |-> t, site |-> "scheduler", hackathon |-> 0]

\* console.error("Error creating teams for hackathon:", error) of invocation t
\* in its call for hackathon h
FormationError(t, h) == [tick |-> t, site |-> "formation", hackathon |-> h]

\* cron fires invocation t: the query runs and the for loop is entered
RunTick(t) ==
    /\ pc[t] = "idle"
    /\ \A u \in Ticks : u < t => pc[u] # "idle"
    /\ now' = now + Interval
    /\ hackathons' = [hackathons EXCEPT ![t] = Find(1, now')]
    /\ pc' = [pc EXCEPT ![t] = "loop"]
    /\ UNCHANGED <<chatVars, wsVars, docVars, storeVars, localVars, txnVars, emitted, errorLog>>

\* a mutant of FindFails: the callback without its try/catch; the rejection
\* is unhandled, the process exits and no later invocation runs
FindFailsUncaught(t) ==
    /\ pc[t] = "idle"
    /\ \A u \in Ticks : u < t => pc[u] # "idle"
    /\ now' = now + Interval
    /\ pc' = [u \in Ticks |-> IF pc[u] = "idle" THEN "done" ELSE pc[u]]
    /\ UNCHANGED <<chatVars, wsVars, docVars, storeVars, hackathons, localVars, txnVars, emitted, errorLog>>

\* cron fires invocation t and Hackathon.find rejects: the callback's catch
\* logs "Scheduler error" and the invocation ends, the for loop never entered
FindFails(t) ==
    /\ pc[t] = "idle"
    /\ \A u \in Ticks : u < t => pc[u] # "idle"
    /\ now' = now + Interval
    /\ pc' = [pc EXCEPT ![t] = "done"]
    /\ errorLog' = errorLog \cup {SchedulerError(t)}
    /\ UNCHANGED <<chatVars, wsVars, docVars, storeVars, hackathons, localVars, txnVars, emitted>>

\* the for loop has no hackathon left
EndTick(t) ==
    /\ pc[t] = "loop"
    /\ hackathons[t] = << >>
    /\ pc' = [pc EXCEPT ![t] = "done"]
    /\ UNCHANGED <<chatVars, wsVars, docVars, storeVars, now, hackathons, localVars, txnVars, emitted, errorLog>>

\* ---- createTeamsForHackathon ----

\* a mutant of SkipHackathon: the early return without abortTransaction and
\* endSession
SkipLeavesSessionOpen(t) ==
    /\ pc[t] = "loop"
    /\ hackathons[t] # << >>
    /\ LET h == Head(hackathons[t]) IN
         participants[h] = 0 \/ problemStatements[h] = 0
    /\ hackathons' = [hackathons EXCEPT ![t] = Tail(@)]
    /\ txnState' = [txnState EXCEPT ![t] = "active"]
    /\ UNCHANGED <<chatVars, wsVars, docVars, storeVars, now, pc, localVars,
                   txnSnapshot, txnTeams, txnMembers, txnUpdate, emitted, errorLog>>

\* the early returns: no participants, or no problem statements.  The session
\* and the transaction started at the head of the function are aborted and
\* ended before the return: the invocation is left without a session.
SkipHackathon(t) ==
    /\ pc[t] = "loop"
    /\ hackathons[t] # << >>
    /\ LET h == Head(hackathons[t]) IN
         participants[h] = 0 \/ problemStatements[h] = 0
    /\ hackathons' = [hackathons EXCEPT ![t] = Tail(@)]
    /\ UNCHANGED <<chatVars, wsVars, docVars, storeVars, now, pc, localVars, txnVars, emitted, errorLog>>

\* startSession, startTransaction and the shuffle
BeginFormation(t) ==
    /\ pc[t] = "loop"
    /\ hackathons[t] # << >>
    /\ LET h == Head(hackathons[t])
           n == participants[h]
       IN /\ n >= 1
          /\ problemStatements[h] >= 1
          /\ \E js \in Draws(n) :
               shuffledParticipants' = [shuffledParticipants EXCEPT
                   ![t] = FisherYates([k \in 1..n |-> k], n - 1, js)]
    /\ i' = [i EXCEPT ![t] = 0]
    /\ txnState' = [txnState EXCEPT ![t] = "active"]
    /\ pc' = [pc EXCEPT ![t] = "chunk"]
    /\ UNCHANGED <<chatVars, wsVars, docVars, storeVars, now, hackathons, createdTeams, emailPromises,
                   txnSnapshot, txnTeams, txnMembers, txnUpdate, emitted, errorLog>>

\* a mutant of RoleOf: the first member is taken to be at index 1
RoleOfOneBased(index) == IF index = 1 THEN "leader" ELSE "developer"

\* const role = index === 0 ? "leader" : "developer"
RoleOf(index) == IF index = 0 THEN "leader" ELSE "developer"

\* `Team-${Math.random().toString(36).substring(2, 8).toUpperCase()}`: which
\* token is drawn decides nothing the scheduler does; the model writes the
\* team's id for the token
TeamName(id) == <<"Team", id>>

TeamDoc(id, h, p) ==
    [_id |-> id, name |-> TeamName(id), hackathonId |-> h, problemStatement |-> p,
     submissionStatus |-> "not_submitted"]

MemberDoc(id, teamMembers, k) ==
    [teamId |-> id, userId |-> teamMembers[k], role |-> RoleOf(k - 1), status |-> "active"]

\* a mutant of Notification: teammates without the filter on the recipient
NotificationWithSelf(id, teamMembers, k, p) ==
    [email |-> teamMembers[k],
     teammates |-> {teamMembers[m] : m \in 1..Len(teamMembers)},
     problemStatement |-> p, teamName |-> TeamName(id), teamId |-> id,
     state |-> "pending"]

\* the argument of one sendTeamNotification call, and the state of its promise;
\* a participant stands for its name and its email address
Notification(id, teamMembers, k, p) ==
    [email |-> teamMembers[k],
     teammates |-> {teamMembers[m] : m \in (1..Len(teamMembers)) \ {k}},
     problemStatement |-> p, teamName |-> TeamName(id), teamId |-> id,
     state |-> "pending"]

\* one iteration of the chunking loop: Team.create, the TeamMember.create calls,
\* the populate read, and the notification sends.  failAt names the await that
\* throws ("none": the iteration completes); written is the set of chunk
\* positions whose TeamMember.create reached the transaction before it.
ChunkIteration(t) ==
    /\ pc[t] = "chunk"
    /\ i[t] < Len(shuffledParticipants[t])
    /\ Len(createdTeams[t]) < MaxIter
    /\ LET h == Head(hackathons[t])
           teamMembers == JsSlice(shuffledParticipants[t], i[t], i[t] + maxTeamSize[h])
           id == <<t, h, Len(createdTeams[t]) + 1>>
           all == 1..Len(teamMembers)
       IN \E p \in 1..problemStatements[h] :
          \E failAt \in {"none", "team", "member", "populate"} :
          \E written \in SUBSET all :
            /\ failAt \in {"none", "populate"} => written = all
            /\ failAt = "team" => written = {}
            /\ failAt = "member" => written # all
            /\ txnSnapshot' = [txnSnapshot EXCEPT
                   ![t] = IF @ < 0 THEN version[h] ELSE @]
            /\ txnTeams' = [txnTeams EXCEPT
                   ![t] = IF failAt = "team" THEN @ ELSE @ \cup {TeamDoc(id, h, p)}]
            /\ txnMembers' = [txnMembers EXCEPT
                   ![t] = @ \cup {MemberDoc(id, teamMembers, k) : k \in written}]
            /\ IF failAt = "none"
               THEN /\ createdTeams' = [createdTeams EXCEPT ![t] =
                          Append(@, [_id |-> id, problemStatement |-> p,
                                     members |-> teamMembers])]
                    /\ emailPromises' = [emailPromises EXCEPT ![t] =
                          @ \cup {Notification(id, teamMembers, k, p) : k \in all}]
                    /\ i' = [i EXCEPT ![t] = @ + maxTeamSize[h]]
                    /\ pc' = pc
               ELSE /\ pc' = [pc EXCEPT ![t] = "catch"]
                    /\ UNCHANGED <<createdTeams, emailPromises, i>>
    /\ UNCHANGED <<chatVars, wsVars, docVars, storeVars, now, hackathons, shuffledParticipants,
                   txnState, txnUpdate, emitted, errorLog>>

\* MongoDB refuses a write to a document that another open transaction has
\* written, or that was committed to after this transaction's snapshot
WriteConflict(t, h) ==
    \/ version[h] # txnSnapshot[t]
    \/ \E u \in Ticks \ {t} :
         /\ txnState[u] = "active"
         /\ txnUpdate[u]
         /\ Head(hackathons[u]) = h

\* Hackathon.findByIdAndUpdate(_id, {$set: {...}}, {session}), after the loop
UpdateHackathon(t) ==
    /\ pc[t] = "chunk"
    /\ ~(i[t] < Len(shuffledParticipants[t]))
    /\ \E fails \in BOOLEAN :
         IF fails \/ WriteConflict(t, Head(hackathons[t]))
         THEN /\ pc' = [pc EXCEPT ![t] = "catch"]
              /\ UNCHANGED txnUpdate
         ELSE /\ pc' = [pc EXCEPT ![t] = "commit"]
              /\ txnUpdate' = [txnUpdate EXCEPT ![t] = TRUE]
    /\ UNCHANGED <<chatVars, wsVars, docVars, storeVars, now, hackathons, localVars,
                   txnState, txnSnapshot, txnTeams, txnMembers, emitted, errorLog>>

\* a mutant of CommitTransaction: the update of the hackathon document is not
\* among the writes of the transaction
CommitWithoutUpdate(t) ==
    /\ pc[t] = "commit"
    /\ \E fails \in BOOLEAN :
         IF fails
         THEN /\ pc' = [pc EXCEPT ![t] = "catch"]
              /\ UNCHANGED <<storeVars, txnState>>
         ELSE /\ teams' = teams \cup txnTeams[t]
              /\ members' = members \cup txnMembers[t]
              /\ UNCHANGED <<status, teamsFormed, version>>
              /\ txnState' = [txnState EXCEPT ![t] = "committed"]
              /\ pc' = [pc EXCEPT ![t] = "settle"]
    /\ UNCHANGED <<chatVars, wsVars, docVars, now, hackathons, localVars,
                   txnSnapshot, txnTeams, txnMembers, txnUpdate, emitted, errorLog>>

\* session.commitTransaction(): the writes of the transaction become visible
\* together, or the call throws and none does
CommitTransaction(t) ==
    /\ pc[t] = "commit"
    /\ LET h == Head(hackathons[t]) IN
       \E fails \in BOOLEAN :
         IF fails
         THEN /\ pc' = [pc EXCEPT ![t] = "catch"]
              /\ UNCHANGED <<storeVars, txnState>>
         ELSE /\ teams' = teams \cup txnTeams[t]
              /\ members' = members \cup txnMembers[t]
              /\ status' = [status EXCEPT ![h] = "registration_closed"]
              /\ teamsFormed' = [teamsFormed EXCEPT ![h] = TRUE]
              /\ version' = [version EXCEPT ![h] = @ + 1]
              /\ txnState' = [txnState EXCEPT ![t] = "committed"]
              /\ pc' = [pc EXCEPT ![t] = "settle"]
    /\ UNCHANGED <<chatVars, wsVars, docVars, now, hackathons, localVars,
                   txnSnapshot, txnTeams, txnMembers, txnUpdate, emitted, errorLog>>

\* a mutant of AllSettled: await Promise.all(emailPromises), which throws when
\* a send rejected
AllOrThrow(t) ==
    /\ pc[t] = "settle"
    /\ \E rejected \in SUBSET {e.email : e \in emailPromises[t]} :
         /\ emailPromises' = [emailPromises EXCEPT ![t] =
               {[e EXCEPT !.state = IF e.email \in rejected THEN "rejected" ELSE "fulfilled"]
                  : e \in @}]
         /\ pc' = [pc EXCEPT ![t] = IF rejected = {} THEN "emit" ELSE "catch"]
    /\ UNCHANGED <<chatVars, wsVars, docVars, storeVars, now, hackathons, shuffledParticipants, i,
                   createdTeams, txnVars, emitted, errorLog>>

\* await Promise.allSettled(emailPromises): every started send has resolved or
\* rejected; rejected is the set of recipients whose send rejected
AllSettled(t) ==
    /\ pc[t] = "settle"
    /\ \E rejected \in SUBSET {e.email : e \in emailPromises[t]} :
         emailPromises' = [emailPromises EXCEPT ![t] =
             {[e EXCEPT !.state = IF e.email \in rejected THEN "rejected" ELSE "fulfilled"]
                : e \in @}]
    /\ pc' = [pc EXCEPT ![t] = "emit"]
    /\ UNCHANGED <<chatVars, wsVars, docVars, storeVars, now, hackathons, shuffledParticipants, i,
                   createdTeams, txnVars, emitted, errorLog>>

\* io.to(_id.toString()).emit("teams-formed", ...), and return
EmitTeamsFormed(t) ==
    /\ pc[t] = "emit"
    /\ \E fails \in BOOLEAN :
         IF fails
         THEN /\ pc' = [pc EXCEPT ![t] = "catch"]
              /\ UNCHANGED <<hackathons, localVars, txnVars, emitted>>
         ELSE /\ emitted' = emitted \cup
                    {[hackathonId |-> Head(hackathons[t]), teams |-> createdTeams[t]]}
              /\ hackathons' = [hackathons EXCEPT ![t] = Tail(@)]
              /\ pc' = [pc EXCEPT ![t] = "loop"]
              /\ ResetLocals(t)
    /\ UNCHANGED <<chatVars, wsVars, docVars, storeVars, now, errorLog>>

\* a mutant of AbortTransaction: the documents written in the transaction stay
AbortKeepsWrites(t) ==
    /\ teams' = teams \cup txnTeams[t]
    /\ members' = members \cup txnMembers[t]
    /\ UNCHANGED <<status, teamsFormed, version>>

\* session.abortTransaction(): the writes of the transaction are discarded
\* (after a commit the call throws and changes nothing)
AbortTransaction(t) == UNCHANGED storeVars

\* the catch block: abortTransaction, endSession, console.error, throw error.
\* After a commit abortTransaction itself throws, and the rest of the block
\* (its console.error too) is not run.  Nothing in the for loop of the cron
\* callback catches what the block throws: the callback's own catch logs
\* "Scheduler error" and the invocation ends, the hackathons after this one
\* unvisited.
CatchAndRethrow(t) ==
    /\ pc[t] = "catch"
    /\ AbortTransaction(t)
    /\ pc' = [pc EXCEPT ![t] = "done"]
    /\ hackathons' = [hackathons EXCEPT ![t] = Tail(@)]
    /\ errorLog' = errorLog \cup {SchedulerError(t)} \cup
           (IF txnState[t] = "committed" THEN {}
            ELSE {FormationError(t, Head(hackathons[t]))})
    /\ ResetLocals(t)
    /\ UNCHANGED <<chatVars, wsVars, docVars, now, emitted>>

Next ==
    \E t \in Ticks :
        \/ RunTick(t)
        \/ FindFails(t)
        \/ EndTick(t)
        \/ SkipHackathon(t)
        \/ BeginFormation(t)
        \/ ChunkIteration(t)
        \/ UpdateHackathon(t)
        \/ CommitTransaction(t)
        \/ AllSettled(t)
        \/ EmitTeamsFormed(t)
        \/ CatchAndRethrow(t)

Spec == Init /\ [][Next]_vars

\* invocations that do not overlap: cron fires only when no invocation is
\* running
NextSeq ==
    \E t \in Ticks :
        \/ RunTick(t) /\ \A u \in Ticks : pc[u] \in {"idle", "done"}
        \/ FindFails(t) /\ \A u \in Ticks : pc[u] \in {"idle", "done"}
        \/ EndTick(t)
        \/ SkipHackathon(t)
        \/ BeginFormation(t)
        \/ ChunkIteration(t)
        \/ UpdateHackathon(t)
        \/ CommitTransaction(t)
        \/ AllSettled(t)
        \/ EmitTeamsFormed(t)
        \/ CatchAndRethrow(t)

SpecSeq == Init /\ [][NextSeq]_vars

\* one hackathon, up to MaxSingleParticipants participants
SpecSingle == InitSingle /\ [][NextSeq]_vars

\* ---- the WebSocket service (src/unnamed/part_001) ----

\* removeClient(userId): this.clients.delete(userId)
RemoveClient(u) == clients' = [clients EXCEPT ![u] = 0]

\* ws.close(code, reason) and ws.terminate(): an open socket starts closing,
\* its 'close' event is emitted later
Closing(rs) == IF rs = "OPEN" THEN "CLOSING" ELSE rs

\* the 'connection' event of socket s, authenticated as user u:
\* handleClientConnection with addClient (the socket registered for u, if any,
\* is closed as a duplicate), ws.isAlive = true, and the handlers of s bound
\* to u.  Sockets connect in the order of their numbers.
HandleClientConnection(s, u) ==
    /\ readyState[s] = "none"
    /\ \A r \in Sockets : r < s => readyState[r] # "none"
    /\ readyState' = [r \in Sockets |->
           IF r = s THEN "OPEN"
           ELSE IF r = clients[u] THEN Closing(readyState[r])
           ELSE readyState[r]]
    /\ clients' = [clients EXCEPT ![u] = s]
    /\ userId' = [userId EXCEPT ![s] = u]
    /\ isAlive' = [isAlive EXCEPT ![s] = TRUE]
    /\ UNCHANGED <<ping, terminated, schedVars, chatVars>>

\* the peer of socket s closes the connection, or the connection is lost
PeerCloses(s) ==
    /\ readyState[s] = "OPEN"
    /\ readyState' = [readyState EXCEPT ![s] = "CLOSING"]
    /\ UNCHANGED <<clients, userId, isAlive, ping, terminated, schedVars, chatVars>>

\* the 'close' handler of socket s: removeClient(userId)
OnClose(s) ==
    /\ readyState[s] = "CLOSING"
    /\ readyState' = [readyState EXCEPT ![s] = "CLOSED"]
    /\ RemoveClient(userId[s])
    /\ UNCHANGED <<userId, isAlive, ping, terminated, schedVars, chatVars>>

\* the 'error' handler of socket s: removeClient(userId); ws closes a socket
\* that emitted an error
OnError(s) ==
    /\ readyState[s] \in {"OPEN", "CLOSING"}
    /\ readyState' = [readyState EXCEPT ![s] = "CLOSING"]
    /\ RemoveClient(userId[s])
    /\ UNCHANGED <<userId, isAlive, ping, terminated, schedVars, chatVars>>

\* a mutant of Pong: the socket without its 'pong' handler
PongUnhandled(s) ==
    /\ readyState[s] = "OPEN"
    /\ ping[s] = "sent"
    /\ ping' = [ping EXCEPT ![s] = "answered"]
    /\ UNCHANGED <<clients, readyState, userId, isAlive, terminated, schedVars, chatVars>>

\* the peer of socket s answers the ping it was sent: the 'pong' handler sets
\* ws.isAlive = true
Pong(s) ==
    /\ readyState[s] = "OPEN"
    /\ ping[s] = "sent"
    /\ ping' = [ping EXCEPT ![s] = "answered"]
    /\ isAlive' = [isAlive EXCEPT ![s] = TRUE]
    /\ UNCHANGED <<clients, readyState, userId, terminated, schedVars, chatVars>>

\* the sockets in the clients map
Registered == {clients[u] : u \in WsUsers} \ {0}

\* one run of the setInterval callback of startHeartbeat, over every entry of
\* the clients map: a socket whose isAlive is false is terminated, any other
\* has isAlive set to false and is sent a ping (which goes out on an open
\* socket only)
Heartbeat ==
    /\ LET dead == {s \in Registered : ~isAlive[s]}
           pinged == Registered \ dead
       IN /\ readyState' = [s \in Sockets |->
                 IF s \in dead THEN Closing(readyState[s]) ELSE readyState[s]]
          /\ terminated' = terminated \cup dead
          /\ isAlive' = [s \in Sockets |-> IF s \in pinged THEN FALSE ELSE isAlive[s]]
          /\ ping' = [s \in Sockets |->
                 IF s \in pinged /\ readyState[s] = "OPEN" THEN "sent" ELSE ping[s]]
    /\ UNCHANGED <<clients, userId, schedVars, chatVars>>

\* the scheduler is not started: its documents are fixed and it stays idle
InitWs ==
    /\ participants = [h \in Hackathons |-> 0]
    /\ maxTeamSize = [h \in Hackathons |-> 1]
    /\ problemStatements = [h \in Hackathons |-> 0]
    /\ registrationDeadline = [h \in Hackathons |-> Interval]
    /\ isActive = [h \in Hackathons |-> TRUE]
    /\ InitScheduler
    /\ InitChat

NextWs ==
    \/ \E s \in Sockets : \E u \in WsUsers : HandleClientConnection(s, u)
    \/ \E s \in Sockets : PeerCloses(s)
    \/ \E s \in Sockets : OnClose(s)
    \/ \E s \in Sockets : OnError(s)
    \/ \E s \in Sockets : Pong(s)
    \/ Heartbeat

SpecWs == InitWs /\ [][NextWs]_vars

\* ---- the message routes (src/unnamed/part_000) ----

\* a filter {"members.userId": u, "members.f": v} on the members array of a
\* team document: MongoDB matches each dotted condition against any element
\* of the array, not both against one element
AnyMemberIs(ms, u) == \E e \in ms : e.userId = u
AnyMemberLeader(ms) == \E e \in ms : e.role = "leader"
AnyMemberAdmin(ms) == \E e \in ms : e.isAdmin

\* Team.findOne({_id: message.teamId, $or: [{"members.userId": u,
\* "members.role": "leader"}, {"members.userId": u, "members.isAdmin": true}]})
\* finds the team
FindLeaderOrAdmin(tm, u) ==
    LET ms == chatTeams[tm].members
    IN \/ AnyMemberIs(ms, u) /\ AnyMemberLeader(ms)
       \/ AnyMemberIs(ms, u) /\ AnyMemberAdmin(ms)

Response(route, u, id, code) ==
    [route |-> route, user |-> u, messageId |-> id, status |-> code]

\* POST /team/:teamId/messages by user u: 403 unless the team has u among its
\* members and chat enabled; else the message is saved, broadcast and
\* answered with 201
SendMessage(u, tm) ==
    /\ created < NumMessages
    /\ IF AnyMemberIs(chatTeams[tm].members, u) /\ chatTeams[tm].chatEnabled
       THEN /\ created' = created + 1
            /\ messages' = messages \cup
                   {[_id |-> created + 1, teamId |-> tm, senderId |-> u]}
            /\ broadcasts' = broadcasts \cup
                   {[type |-> "message.new", teamId |-> tm, messageId |-> created + 1]}
            /\ response' = Response("post", u, created + 1, 201)
       ELSE /\ response' = Response("post", u, 0, 403)
            /\ UNCHANGED <<created, messages, broadcasts>>
    /\ UNCHANGED <<chatTeams, schedVars, wsVars>>

\* DELETE /messages/:messageId by user u: 404 when no such message is stored,
\* 403 when the team query finds nothing and u is not the sender; else the
\* message is deleted, 'message.deleted' is broadcast to its team, and the
\* answer is 200
DeleteMessage(u, id) ==
    /\ IF ~\E m \in messages : m._id = id
       THEN /\ response' = Response("delete", u, id, 404)
            /\ UNCHANGED <<messages, broadcasts>>
       ELSE LET message == CHOOSE m \in messages : m._id = id
                team == FindLeaderOrAdmin(message.teamId, u)
                isSender == message.senderId = u
            IN IF ~team /\ ~isSender
               THEN /\ response' = Response("delete", u, id, 403)
                    /\ UNCHANGED <<messages, broadcasts>>
               ELSE /\ messages' = messages \ {message}
                    /\ broadcasts' = broadcasts \cup
                           {[type |-> "message.deleted", teamId |-> message.teamId,
                             messageId |-> id]}
                    /\ response' = Response("delete", u, id, 200)
    /\ UNCHANGED <<chatTeams, created, schedVars, wsVars>>

\* the member entries a team may hold: at most one for a user
MemberEntries ==
    [userId : ChatUsers, role : {"leader", "developer"}, isAdmin : BOOLEAN]

MemberLists ==
    {ms \in SUBSET MemberEntries : \A a, b \in ms : a.userId = b.userId => a = b}

\* teams with any members, no message yet; the scheduler is not started
InitMsg ==
    /\ participants = [h \in Hackathons |-> 0]
    /\ maxTeamSize = [h \in Hackathons |-> 1]
    /\ problemStatements = [h \in Hackathons |-> 0]
    /\ registrationDeadline = [h \in Hackathons |-> Interval]
    /\ isActive = [h \in Hackathons |-> TRUE]
    /\ InitScheduler
    /\ chatTeams \in [ChatTeams -> [members : MemberLists, chatEnabled : BOOLEAN]]
    /\ messages = {}
    /\ created = 0
    /\ broadcasts = {}
    /\ response = Response("none", 0, 0, 0)

NextMsg ==
    \/ \E u \in ChatUsers : \E tm \in ChatTeams : SendMessage(u, tm)
    \/ \E u \in ChatUsers : \E id \in 1..NumMessages : DeleteMessage(u, id)

SpecMsg == InitMsg /\ [][NextMsg]_vars

\* ---- properties ----

\* the invocations whose createTeamsForHackathon call is running
Forming(t) == pc[t] \in {"chunk", "commit", "settle", "emit", "catch"}

\* the invocations that committed sets of teams for hackathon h
Formations(h) == {tm._id[1] : tm \in {x \in teams : x.hackathonId = h}}

\* the committed memberships of user u in teams of hackathon h
Memberships(h, u) == {m \in members : m.teamId[2] = h /\ m.userId = u}

\* C1: atomicity.  When a formation fails before its commit succeeded, the
\* catch block leaves the collections and the hackathon document as they are,
\* and no Team or TeamMember document written by the failed attempt is
\* stored; before its commit, nothing a transaction wrote is stored either.
C1_Atomicity ==
    [][\A t \in Ticks :
         /\ (txnState[t] = "active" /\ pc[t] = "catch" /\ pc'[t] # "catch") =>
              /\ storeVars' = storeVars
              /\ txnTeams[t] \cap teams' = {}
              /\ txnMembers[t] \cap members' = {}
         /\ txnState[t] = "active" =>
              /\ txnTeams[t] \cap teams = {}
              /\ txnMembers[t] \cap members = {}]_vars

\* C1 witness: a failed attempt that had written a team, a membership and the
\* hackathon update (the commit itself failed)
C1_Witness ==
    \E t \in Ticks :
        /\ pc[t] = "catch"
        /\ txnState[t] = "active"
        /\ txnUpdate[t]
        /\ txnTeams[t] # {}
        /\ txnMembers[t] # {}

\* C2: notification ordering.  Every notification send that has been started
\* belongs to a formation whose commitTransaction has returned.
C2_NoSendBeforeCommit ==
    \A t \in Ticks : emailPromises[t] # {} => txnState[t] = "committed"

\* C3: sibling independence.  An invocation that has ended has passed every
\* hackathon it selected to createTeamsForHackathon.
C3_SiblingsProcessed ==
    \A t \in Ticks : pc[t] = "done" => hackathons[t] = << >>

\* C4: double-formation race.  Whatever the overlap of invocations, at most
\* one formation transaction commits for a hackathon.
C4_AtMostOneCommit ==
    \A h \in Hackathons : Cardinality(Formations(h)) <= 1

\* C5: idempotence under re-tick.  With invocations that do not overlap, the
\* store never holds two sets of teams for one hackathon, and a hackathon
\* whose formation committed is not among the hackathons a running invocation
\* has yet to form (it can only be the one whose formation just committed).
C5_Idempotent ==
    /\ \A h \in Hackathons : \A a, b \in Formations(h) : a = b
    /\ \A t \in Ticks : pc[t] # "done" =>
         \A k \in 1..Len(hackathons[t]) :
            status[hackathons[t][k]] = "registration_closed" =>
               k = 1 /\ txnState[t] = "committed"

\* C5 witness: the second invocation has ended, and a hackathon whose deadline
\* lies in the windows of both invocations has one set of teams
C5_Witness ==
    \E h \in Hackathons :
        /\ registrationDeadline[h] = Interval
        /\ Formations(h) # {}
        /\ pc[2] = "done"

\* C6: completeness.  Every participant of a hackathon whose formation
\* committed is in exactly one stored membership of that hackathon's teams.
C6_EachParticipantOnce ==
    \A h \in Hackathons : teamsFormed[h] =>
        \A u \in 1..participants[h] : Cardinality(Memberships(h, u)) = 1

\* ceil(n / s) for s >= 1
CeilDiv(n, s) == (n + s - 1) \div s

\* C7: partition shape.  When the chunking loop has ended, with N participants
\* and maxTeamSize S >= 1, there are ceil(N/S) teams, team k holds the
\* positions (k-1)*S+1 .. min(k*S, N) of the shuffled order, so every team has
\* 1..S members and every team but the last has S.
C7_PartitionShape ==
    \A t \in Ticks : pc[t] \in {"commit", "settle", "emit"} =>
        LET h == Head(hackathons[t])
            N == participants[h]
            S == maxTeamSize[h]
            T == createdTeams[t]
        IN /\ S >= 1
           /\ Len(T) = CeilDiv(N, S)
           /\ \A k \in 1..Len(T) :
                /\ T[k].members =
                     SubSeq(shuffledParticipants[t], (k - 1) * S + 1, Min(k * S, N))
                /\ Len(T[k].members) >= 1
                /\ Len(T[k].members) <= S
                /\ k < Len(T) => Len(T[k].members) = S
           /\ Cardinality(txnTeams[t]) = CeilDiv(N, S)

\* C7 witness: 5 participants, maxTeamSize 2: teams of 2, 2 and 1 members
C7_Witness ==
    \E t \in Ticks :
        /\ pc[t] = "commit"
        /\ participants[Head(hackathons[t])] = 5
        /\ maxTeamSize[Head(hackathons[t])] = 2
        /\ [k \in 1..Len(createdTeams[t]) |-> Len(createdTeams[t][k].members)]
              = <<2, 2, 1>>

\* the memberships of team id among the documents ms
MembersOf(ms, id) == {m \in ms : m.teamId = id}

\* C8: leader uniqueness.  Every stored team has exactly one membership with
\* role leader, the others have role developer, and all have status active;
\* in a formation about to commit the leader of each team is the member at
\* index 0 of its chunk.
C8_OneLeader ==
    /\ \A tm \in teams :
         /\ Cardinality({m \in MembersOf(members, tm._id) : m.role = "leader"}) = 1
         /\ \A m \in MembersOf(members, tm._id) :
              m.role \in {"leader", "developer"} /\ m.status = "active"
    /\ \A t \in Ticks : pc[t] = "commit" =>
         \A k \in 1..Len(createdTeams[t]) :
            LET T == createdTeams[t][k] IN
            \A m \in MembersOf(txnMembers[t], T._id) :
                /\ m.role = "leader" <=> m.userId = T.members[1]
                /\ m.role = "developer" <=> m.userId # T.members[1]

\* C8 witness: a stored team of two members
C8_Witness ==
    \E tm \in teams : Cardinality(MembersOf(members, tm._id)) = 2

\* C9: non-positive team size.  No formation creates a team for a hackathon
\* whose maxTeamSize is not positive: such a hackathon is skipped.
C9_NonPositiveSkipped ==
    \A t \in Ticks : Forming(t) /\ maxTeamSize[Head(hackathons[t])] <= 0 =>
        txnTeams[t] = {}

\* C10: exactly one real-time event.  At most one 'teams-formed' event is
\* emitted for a hackathon, only for a hackathon whose formation committed, and
\* the step that emits it finds no notification of its formation pending.
C10_ExactlyOneEvent ==
    [][/\ \A e1, e2 \in emitted' : e1.hackathonId = e2.hackathonId => e1 = e2
       /\ \A e \in emitted' : teamsFormed'[e.hackathonId]
       /\ \A t \in Ticks : (pc[t] = "emit" /\ pc'[t] = "loop") =>
            \A e \in emailPromises[t] : e.state # "pending"]_vars

\* C11: event emission failure.  When the emit of 'teams-formed' has thrown
\* after the commit, the step that handles the failure keeps the committed
\* teams, memberships and status, starts no new transaction for the hackathon,
\* and returns to the for loop of the invocation with the hackathons after this
\* one still to visit; no "Scheduler error" is logged for it.
C11_EmitFailureContained ==
    [][\A t \in Ticks :
         (pc[t] = "catch" /\ txnState[t] = "committed" /\ pc'[t] # "catch") =>
            /\ storeVars' = storeVars
            /\ txnTeams[t] \subseteq teams'
            /\ txnState'[t] = "none"
            /\ pc'[t] = "loop"
            /\ hackathons'[t] = Tail(hackathons[t])
            /\ SchedulerError(t) \notin errorLog']_vars

\* C12: email failure isolation.  Whatever subset of the sends of a committed
\* formation rejects, the step that awaits them finds a send started for every
\* participant and every send settled, leaves the committed teams, memberships
\* and closed status in place, and goes on to the emit of 'teams-formed'
\* without an error.
C12_EmailFailureIsolated ==
    [][\A t \in Ticks : (pc[t] = "settle" /\ pc'[t] # "settle") =>
         LET h == Head(hackathons[t]) IN
         /\ {e.email : e \in emailPromises'[t]} = 1..participants[h]
         /\ \A e \in emailPromises'[t] : e.state \in {"fulfilled", "rejected"}
         /\ storeVars' = storeVars
         /\ txnTeams[t] \subseteq teams'
         /\ txnMembers[t] \subseteq members'
         /\ status'[h] = "registration_closed"
         /\ pc'[t] = "emit"
         /\ errorLog' = errorLog]_vars

\* C12 witness: a committed formation about to emit, one of its sends
\* rejected and another fulfilled
C12_Witness ==
    \E t \in Ticks :
        /\ pc[t] = "emit"
        /\ txnTeams[t] # {}
        /\ txnTeams[t] \subseteq teams
        /\ \E e \in emailPromises[t] : e.state = "rejected"
        /\ \E e \in emailPromises[t] : e.state = "fulfilled"

\* the elements of a sequence
Range(s) == {s[k] : k \in 1..Len(s)}

\* C13: re-evaluation after abort.  When the formation of hackathon h was
\* aborted in invocation t (its catch block logged the error), the query of
\* the next invocation finds h still in registration_open and selects it.
C13_ReselectedAfterAbort ==
    [][\A t \in Ticks : \A h \in Hackathons :
         (/\ t + 1 \in Ticks
          /\ FormationError(t, h) \in errorLog
          /\ pc[t + 1] = "idle"
          /\ pc'[t + 1] = "loop") =>
            /\ status[h] = "registration_open"
            /\ h \in Range(hackathons'[t + 1])]_vars

\* C14: Eligibility Selector predicate.  The hackathons the query of a tick at
\* instant now hands to the for loop, each to be passed to
\* createTeamsForHackathon, are exactly the hackathons with registrationDeadline
\* in [now - 60 s, now], isActive, status registration_open, at least one
\* participant and at least one problem statement.
C14_SelectorPredicate ==
    [][\A t \in Ticks : (pc[t] = "idle" /\ pc'[t] = "loop") =>
         Range(hackathons'[t]) =
            {h \in Hackathons :
                /\ registrationDeadline[h] >= now' - Interval
                /\ registrationDeadline[h] <= now'
                /\ isActive[h]
                /\ status[h] = "registration_open"
                /\ participants[h] >= 1
                /\ problemStatements[h] >= 1}]_vars

\* C15: skip leaves everything unchanged.  A call of createTeamsForHackathon
\* for a hackathon without participants, or without problem statements,
\* returns with no Team or TeamMember document created, the hackathon
\* document as it was, no notification started, no event emitted and nothing
\* logged as an error, and with its session aborted and ended.
C15_SkipChangesNothing ==
    [][\A t \in Ticks :
         (/\ pc[t] = "loop"
          /\ hackathons[t] # << >>
          /\ hackathons'[t] # hackathons[t]
          /\ \/ participants[Head(hackathons[t])] = 0
             \/ problemStatements[Head(hackathons[t])] = 0) =>
            /\ teams' = teams
            /\ members' = members
            /\ status' = status
            /\ teamsFormed' = teamsFormed
            /\ version' = version
            /\ emailPromises'[t] = {}
            /\ emitted' = emitted
            /\ errorLog' = errorLog
            /\ txnState'[t] = "none"
            /\ txnTeams'[t] = {}
            /\ txnMembers'[t] = {}
            /\ ~txnUpdate'[t]
            /\ pc'[t] = "loop"
            /\ hackathons'[t] = Tail(hackathons[t])]_vars

\* C15 witness: the second invocation has taken up a hackathon without
\* problem statements that the first invocation was passed and returned from,
\* the store still empty
C15_Witness ==
    /\ pc[1] = "done"
    /\ pc[2] = "loop"
    /\ hackathons[2] # << >>
    /\ problemStatements[Head(hackathons[2])] = 0
    /\ registrationDeadline[Head(hackathons[2])] = Interval
    /\ errorLog = {}
    /\ teams = {}
    /\ emitted = {}

\* C16: formation lifecycle.  A step changes the status or the teamsFormed flag
\* of a hackathon only from registration_open to registration_closed with
\* teamsFormed true, and only as the commit of a formation transaction of that
\* hackathon whose teams are stored by the same step; after every step a
\* hackathon with stored teams is closed with teamsFormed true.
C16_Lifecycle ==
    [][\A h \in Hackathons :
         /\ (status'[h] # status[h] \/ teamsFormed'[h] # teamsFormed[h]) =>
              /\ status[h] = "registration_open"
              /\ status'[h] = "registration_closed"
              /\ teamsFormed'[h]
              /\ \E t \in Ticks :
                   /\ txnState[t] = "active"
                   /\ txnState'[t] = "committed"
                   /\ Head(hackathons[t]) = h
                   /\ txnTeams[t] # {}
                   /\ txnTeams[t] \subseteq teams'
                   /\ \A tm \in txnTeams[t] : tm.hackathonId = h
         /\ (\E tm \in teams' : tm.hackathonId = h) =>
              /\ status'[h] = "registration_closed"
              /\ teamsFormed'[h]]_vars

\* C16 witness: a closed hackathon with its teams stored, its invocation ended
C16_Witness ==
    \E h \in Hackathons :
        /\ status[h] = "registration_closed"
        /\ teamsFormed[h]
        /\ \E tm \in teams : tm.hackathonId = h
        /\ \A t \in Ticks : pc[t] = "done"

\* C17: selection error.  The step in which the query of invocation t fails
\* ends that invocation with no hackathon to visit, changes nothing stored,
\* starts no transaction and no send, emits nothing, and is caught by the
\* callback (the error is logged, and no other invocation is touched); the
\* invocation after it may fire, and its query then selects by the stored
\* state alone.
C17_SelectionError ==
    [][\A t \in Ticks :
         /\ (pc[t] = "idle" /\ pc'[t] = "done") =>
              /\ storeVars' = storeVars
              /\ docVars' = docVars
              /\ hackathons'[t] = << >>
              /\ txnVars' = txnVars
              /\ localVars' = localVars
              /\ emitted' = emitted
              /\ errorLog' = errorLog \cup {SchedulerError(t)}
              /\ \A u \in Ticks \ {t} : pc'[u] = pc[u]
              /\ (t + 1 \in Ticks /\ \A u \in Ticks \ {t} : pc[u] \in {"idle", "done"})
                    => pc'[t + 1] = "idle"
         /\ (/\ t > 1
             /\ SchedulerError(t - 1) \in errorLog
             /\ pc[t] = "idle"
             /\ pc'[t] = "loop") =>
              hackathons'[t] = Find(1, now')]_vars

\* C17 witness: the query of the first invocation failed, nothing is stored,
\* and the second invocation has selected a hackathon
C17_Witness ==
    /\ pc[1] = "done"
    /\ errorLog = {SchedulerError(1)}
    /\ teams = {}
    /\ \A h \in Hackathons : status[h] = "registration_open"
    /\ pc[2] = "loop"
    /\ hackathons[2] # << >>

\* C18: one notification per membership.  In a committed formation of a
\* hackathon with N participants, N sends were started, one for each
\* membership written and none besides; the teammates of a send are the other
\* members of the recipient's team and nobody else, its team name and problem
\* statement are those of that team, and the problem statement is one of the
\* hackathon's.
C18_OneNotificationPerMembership ==
    \A t \in Ticks : pc[t] \in {"settle", "emit"} =>
        LET h == Head(hackathons[t])
            E == emailPromises[t]
            M == txnMembers[t]
        IN /\ Cardinality(E) = participants[h]
           /\ Cardinality(M) = participants[h]
           /\ \A m \in M :
                Cardinality({e \in E : e.email = m.userId /\ e.teamId = m.teamId}) = 1
           /\ \A e \in E :
                /\ \E m \in M : e.email = m.userId /\ e.teamId = m.teamId
                /\ e.teammates = {m.userId : m \in MembersOf(M, e.teamId)} \ {e.email}
                /\ e.email \notin e.teammates
                /\ \A m \in M : m.teamId # e.teamId => m.userId \notin e.teammates
                /\ \E tm \in txnTeams[t] :
                     /\ tm._id = e.teamId
                     /\ tm.name = e.teamName
                     /\ tm.problemStatement = e.problemStatement
                     /\ tm.hackathonId = h
                /\ e.problemStatement \in 1..problemStatements[h]

\* C18 witness: a committed formation of three participants in a team of two
\* and a team of one: a send with one teammate and a send with none
C18_Witness ==
    \E t \in Ticks :
        /\ pc[t] = "settle"
        /\ participants[Head(hackathons[t])] = 3
        /\ \E e1, e2 \in emailPromises[t] :
             /\ e1.teamId # e2.teamId
             /\ Cardinality(e1.teammates) = 1
             /\ e2.teammates = {}

\* the socket connected last for the user of socket s is s itself
Latest(s) == \A r \in Sockets : r > s => userId[r] # userId[s]

\* C19: client registry under reconnect.  After any interleaving of
\* connection, close and error events the socket a user connected last is,
\* while it is open, the socket registered for that user: the 'close' event of
\* an older socket that addClient closed as a duplicate does not remove it.
\* (The map holds at most one socket per user by its type.)
C19_LatestOpenRegistered ==
    \A s \in Sockets :
        (readyState[s] = "OPEN" /\ Latest(s)) => clients[userId[s]] = s

\* C20: heartbeat.  At a run of the heartbeat callback, a registered socket
\* whose last ping was not answered is terminated, and an open registered
\* socket that has no ping unanswered is not terminated and stays open.
C20_Heartbeat ==
    [][Heartbeat =>
         \A s \in Registered :
            /\ ping[s] = "sent" =>
                 /\ s \in terminated'
                 /\ readyState'[s] # "OPEN"
            /\ (readyState[s] = "OPEN" /\ ping[s] # "sent") =>
                 /\ s \notin terminated'
                 /\ readyState'[s] = "OPEN"
                 /\ ping'[s] = "sent"]_vars

\* C20 witness: one socket was terminated, another has answered its last ping
\* and is open and registered
C20_Witness ==
    \E s, r \in Sockets :
        /\ s \in terminated
        /\ ping[s] = "sent"
        /\ r \notin terminated
        /\ ping[r] = "answered"
        /\ readyState[r] = "OPEN"
        /\ clients[userId[r]] = r

\* user u has, in team tm, a member entry of its own with role leader or with
\* isAdmin true
OwnEntryLeaderOrAdmin(tm, u) ==
    \E e \in chatTeams[tm].members :
        e.userId = u /\ (e.role = "leader" \/ e.isAdmin)

\* C21: message deletion authorization.  A DELETE request removes a stored
\* message, and broadcasts 'message.deleted' for it, only when the requester
\* is the sender of the message or has an own member entry in the message's
\* team with role leader or isAdmin true; the request of any other user for a
\* stored message is answered with 403 and leaves the message stored.
C21_DeleteAuthorized ==
    [][/\ \A m \in messages : m \notin messages' =>
             /\ response'.route = "delete"
             /\ response'.status = 200
             /\ \/ m.senderId = response'.user
                \/ OwnEntryLeaderOrAdmin(m.teamId, response'.user)
       /\ \A b \in broadcasts' \ broadcasts : b.type = "message.deleted" =>
             \E m \in messages :
                /\ m._id = b.messageId
                /\ \/ m.senderId = response'.user
                   \/ OwnEntryLeaderOrAdmin(m.teamId, response'.user)
       /\ \A u \in ChatUsers : \A m \in messages :
             (/\ DeleteMessage(u, m._id)
              /\ m.senderId # u
              /\ ~OwnEntryLeaderOrAdmin(m.teamId, u)) =>
                 /\ response'.status = 403
                 /\ m \in messages']_vars

====
